---------------------------- MODULE Spec2Model ----------------------------
(***************************************************************************)
(* fdroid-bridge: metadata store (load/save/validate), index builder       *)
(* (generate_index / create_minimal_index) and the error taxonomy.         *)
(*                                                                         *)
(* Python values are tagged records [t, v].  A str is the sequence of its  *)
(* code points (97 = "a", 34 = the double quote, 92 = the backslash,       *)
(* 10 = newline, 230 = U+00E6), a file is the sequence of its bytes, a     *)
(* dict is the sequence of its items in insertion order.                   *)
(***************************************************************************)
EXTENDS Integers, Sequences, FiniteSets, TLC

(***************************************************************************)
(* Python values                                                           *)
(***************************************************************************)
PyStr(s)   == [t |-> "str",   v |-> s]
PyInt(n)   == [t |-> "int",   v |-> n]
PyBool(b)  == [t |-> "bool",  v |-> b]
PyFloat(s) == [t |-> "float", v |-> s]
PyList(xs) == [t |-> "list",  v |-> xs]
PyDict(ps) == [t |-> "dict",  v |-> ps]
None     == [t |-> "none",  v |-> 0]
Item(k, x) == [k |-> k, val |-> x]

DictKeys(d) == {d.v[i].k : i \in DOMAIN d.v}
DictHas(d, k) == \E i \in DOMAIN d.v : d.v[i].k = k
DictGet(d, k) == d.v[CHOOSE i \in DOMAIN d.v : d.v[i].k = k].val
DictGetDefault(d, k, dflt) == IF DictHas(d, k) THEN DictGet(d, k) ELSE dflt
\* d[k] = x : an existing key keeps its position, a new key goes last
DictSet(d, k, x) ==
    IF DictHas(d, k)
    THEN PyDict([i \in DOMAIN d.v |-> IF d.v[i].k = k THEN Item(k, x) ELSE d.v[i]])
    ELSE PyDict(Append(d.v, Item(k, x)))

\* bool(x): the truth value Python gives a value in "not x"
Truthy(x) ==
    CASE x.t = "str"   -> Len(x.v) > 0
      [] x.t = "int"   -> x.v # 0
      [] x.t = "bool"  -> x.v
      [] x.t = "none"  -> FALSE
      [] x.t = "list"  -> Len(x.v) > 0
      [] x.t = "dict"  -> Len(x.v) > 0
      [] OTHER         -> TRUE

\* isinstance(x, int): bool is a subclass of int
IsInstanceInt(x) == x.t \in {"int", "bool"}

\* the integer an int or a bool compares as
IntOf(x) == IF x.t = "bool" THEN (IF x.v THEN 1 ELSE 0) ELSE x.v

RECURSIVE PyEq(_, _)
\* a == b
PyEq(a, b) ==
    IF IsInstanceInt(a) /\ IsInstanceInt(b) THEN IntOf(a) = IntOf(b)
    ELSE IF a.t # b.t THEN FALSE
    ELSE IF a.t = "list"
         THEN /\ Len(a.v) = Len(b.v)
              /\ \A i \in DOMAIN a.v : PyEq(a.v[i], b.v[i])
    ELSE IF a.t = "dict"
         THEN /\ DictKeys(a) = DictKeys(b)
              /\ \A k \in DictKeys(a) : PyEq(DictGet(a, k), DictGet(b, k))
    ELSE a.v = b.v

(***************************************************************************)
(* Text helpers                                                            *)
(***************************************************************************)
At(s, i) == IF i >= 1 /\ i <= Len(s) THEN s[i] ELSE -1
StartsWithAt(s, i, w) ==
    /\ i + Len(w) - 1 <= Len(s)
    /\ \A j \in 1..Len(w) : s[i + j - 1] = w[j]
\* x in s
Contains(s, x) ==
    \E i \in 1..(Len(s) - Len(x) + 1) : StartsWithAt(s, i, x)
IsDigit(c) == c >= 48 /\ c <= 57

Spaces(n) == [i \in 1..n |-> 32]

RECURSIVE NatText(_)
NatText(n) == IF n < 10 THEN <<48 + n>> ELSE NatText(n \div 10) \o <<48 + (n % 10)>>
\* str(n) of an int
IntText(n) == IF n < 0 THEN <<45>> \o NatText(0 - n) ELSE NatText(n)

HexDigit(d) == IF d < 10 THEN 48 + d ELSE 87 + d
HexVal(c) ==
    IF IsDigit(c) THEN c - 48
    ELSE IF c >= 97 /\ c <= 102 THEN c - 87
    ELSE IF c >= 65 /\ c <= 70 THEN c - 55
    ELSE -1

(***************************************************************************)
(* str.encode("utf-8") and bytes.decode("utf-8"), code points below 2^16   *)
(***************************************************************************)
EncodeChar(c) ==
    IF c < 128 THEN <<c>>
    ELSE IF c < 2048 THEN <<192 + (c \div 64), 128 + (c % 64)>>
    ELSE <<224 + (c \div 4096), 128 + ((c \div 64) % 64), 128 + (c % 64)>>

RECURSIVE Utf8Encode(_)
\* the encodings of the characters, concatenated (computed by halves)
Utf8Encode(s) ==
    IF Len(s) = 0 THEN <<>>
    ELSE IF Len(s) = 1 THEN EncodeChar(s[1])
    ELSE Utf8Encode(SubSeq(s, 1, Len(s) \div 2))
         \o Utf8Encode(SubSeq(s, Len(s) \div 2 + 1, Len(s)))

IsCont(b) == b >= 128 /\ b <= 191

\* the number of bytes of the character a first byte announces, 0 when the
\* byte cannot start a character
CharBytes(c) ==
    IF c < 128 THEN 1
    ELSE IF c >= 194 /\ c <= 223 THEN 2
    ELSE IF c >= 224 /\ c <= 239 THEN 3
    ELSE 0
\* the positions of the bytes that are not continuation bytes
FirstBytes(b) == {i \in 1..Len(b) : ~IsCont(b[i])}
\* position i starts a well-formed character that ends where the next starts
WellFormedAt(b, i) ==
    /\ CharBytes(b[i]) > 0
    /\ \A k \in 1..(CharBytes(b[i]) - 1) : IsCont(At(b, i + k))
    /\ ~IsCont(At(b, i + CharBytes(b[i])))
    /\ CharBytes(b[i]) = 3 => (b[i] - 224) * 4096 + (b[i + 1] - 128) * 64 >= 2048
\* the code point of the character starting at position i
CodePointAt(b, i) ==
    IF CharBytes(b[i]) = 1 THEN b[i]
    ELSE IF CharBytes(b[i]) = 2 THEN (b[i] - 192) * 64 + (b[i + 1] - 128)
    ELSE (b[i] - 224) * 4096 + (b[i + 1] - 128) * 64 + (b[i + 2] - 128)
\* the n-th smallest element of a set of integers
Nth(S, n) == CHOOSE i \in S : Cardinality({j \in S : j <= i}) = n
\* strict decoding: [ok, text]; ok = FALSE is UnicodeDecodeError
Utf8Decode(b) ==
    IF /\ (Len(b) > 0 => ~IsCont(b[1]))
       /\ \A i \in FirstBytes(b) : WellFormedAt(b, i)
    THEN [ok |-> TRUE,
          text |-> [n \in 1..Cardinality(FirstBytes(b)) |-> CodePointAt(b, Nth(FirstBytes(b), n))]]
    ELSE [ok |-> FALSE, text |-> <<>>]

(***************************************************************************)
(* json.dumps(value, indent=2, ensure_ascii=False)                         *)
(***************************************************************************)
\* a slip: no character is escaped
EscapeCharNone(c) == <<c>>

\* the escape of one character of a string (ensure_ascii=False: only the
\* quote, the backslash and the control characters are escaped)
EscapeChar(c) ==
    CASE c = 34 -> <<92, 34>>
      [] c = 92 -> <<92, 92>>
      [] c = 10 -> <<92, 110>>
      [] c = 13 -> <<92, 114>>
      [] c = 9  -> <<92, 116>>
      [] c = 8  -> <<92, 98>>
      [] c = 12 -> <<92, 102>>
      [] OTHER  -> IF c < 32
                   THEN <<92, 117, 48, 48, HexDigit(c \div 16), HexDigit(c % 16)>>
                   ELSE <<c>>

RECURSIVE EscapeText(_)
\* the escapes of the characters, concatenated (computed by halves)
EscapeText(s) ==
    IF Len(s) = 0 THEN <<>>
    ELSE IF Len(s) = 1 THEN EscapeChar(s[1])
    ELSE EscapeText(SubSeq(s, 1, Len(s) \div 2))
         \o EscapeText(SubSeq(s, Len(s) \div 2 + 1, Len(s)))
QuoteText(s) == <<34>> \o EscapeText(s) \o <<34>>

NewlineIndent(level) == <<10>> \o Spaces(2 * level)

RECURSIVE Dumps(_, _)
RECURSIVE DumpItems(_, _, _, _)
\* the items of a list (isDict = FALSE) or a dict from position i on
DumpItems(xs, i, level, isDict) ==
    IF i > Len(xs) THEN <<>>
    ELSE (IF i > 1 THEN <<44>> ELSE <<>>)
         \o NewlineIndent(level)
         \o (IF isDict
             THEN QuoteText(xs[i].k) \o <<58, 32>> \o Dumps(xs[i].val, level)
             ELSE Dumps(xs[i], level))
         \o DumpItems(xs, i + 1, level, isDict)
Dumps(x, level) ==
    CASE x.t = "str"   -> QuoteText(x.v)
      [] x.t = "int"   -> IntText(x.v)
      [] x.t = "bool"  -> IF x.v THEN <<116, 114, 117, 101>> ELSE <<102, 97, 108, 115, 101>>
      [] x.t = "none"  -> <<110, 117, 108, 108>>
      [] x.t = "float" -> x.v
      [] x.t = "list"  -> IF x.v = <<>> THEN <<91, 93>>
                          ELSE <<91>> \o DumpItems(x.v, 1, level + 1, FALSE)
                               \o NewlineIndent(level) \o <<93>>
      [] x.t = "dict"  -> IF x.v = <<>> THEN <<123, 125>>
                          ELSE <<123>> \o DumpItems(x.v, 1, level + 1, TRUE)
                               \o NewlineIndent(level) \o <<125>>
json_dumps(x) == Dumps(x, 0)

(***************************************************************************)
(* json.loads(text): [ok, val, pos, err]; ok = FALSE is JSONDecodeError    *)
(* with diagnostic err (its line/column suffix is left out, and pos is     *)
(* meaningful only when ok)                                                *)
(***************************************************************************)
Ok(x, pos) == [ok |-> TRUE, val |-> x, pos |-> pos, err |-> <<>>]
Fail(pos, err) == [ok |-> FALSE, val |-> None, pos |-> pos, err |-> err]

\* the diagnostics of json.JSONDecodeError
JsonErr ==
    [ExpectingValue |-> <<69,120,112,101,99,116,105,110,103,32,118,97,108,117,101>>,
     ExtraData |-> <<69,120,116,114,97,32,100,97,116,97>>,
     Unterminated |-> <<85,110,116,101,114,109,105,110,97,116,101,100,32,115,116,114,105,110,103>>,
     ControlChar |-> <<73,110,118,97,108,105,100,32,99,111,110,116,114,111,108,32,99,104,97,114,97,99,116,101,114>>,
     Escape |-> <<73,110,118,97,108,105,100,32,92,101,115,99,97,112,101>>,
     UEscape |-> <<73,110,118,97,108,105,100,32,92,117,88,88,88,88,32,101,115,99,97,112,101>>,
     PropertyName |-> <<69,120,112,101,99,116,105,110,103,32,112,114,111,112,101,114,116,121,32,110,97,109,101>>,
     Colon |-> <<69,120,112,101,99,116,105,110,103,32,39,58,39,32,100,101,108,105,109,105,116,101,114>>,
     Comma |-> <<69,120,112,101,99,116,105,110,103,32,39,44,39,32,100,101,108,105,109,105,116,101,114>>,
     Bom |-> <<85,110,101,120,112,101,99,116,101,100,32,85,84,70,45,56,32,66,79,77>>]

IsWs(c) == c \in {32, 9, 10, 13}
\* the first position at or after i that holds no whitespace
SkipWs(s, i) ==
    CHOOSE j \in i..(Len(s) + 1) : ~IsWs(At(s, j)) /\ \A k \in i..(j - 1) : IsWs(At(s, k))

\* the first position at or after i that holds no digit
DigitsEnd(s, i) ==
    CHOOSE j \in i..(Len(s) + 1) : ~IsDigit(At(s, j)) /\ \A k \in i..(j - 1) : IsDigit(At(s, k))

RECURSIVE NatValue(_, _, _)
NatValue(s, i, j) == IF j < i THEN 0 ELSE NatValue(s, i, j - 1) * 10 + (s[j] - 48)

\* the character a one-letter escape stands for, -1 when there is none
Unescape(e) ==
    CASE e = 34  -> 34
      [] e = 92  -> 92
      [] e = 47  -> 47
      [] e = 98  -> 8
      [] e = 102 -> 12
      [] e = 110 -> 10
      [] e = 114 -> 13
      [] e = 116 -> 9
      [] OTHER   -> -1

RECURSIVE ScanString(_, _, _)
\* the \uXXXX escape whose backslash is at j
ScanHexEscape(s, j, acc) ==
    IF \A d \in 2..5 : HexVal(At(s, j + d)) >= 0
    THEN ScanString(s, j + 6,
             Append(acc, HexVal(s[j + 2]) * 4096 + HexVal(s[j + 3]) * 256
                         + HexVal(s[j + 4]) * 16 + HexVal(s[j + 5])))
    ELSE Fail(j, JsonErr.UEscape)
\* the escape whose backslash is at j and whose letter is e
ScanEscape(s, j, acc, e) ==
    IF e = -1 THEN Fail(j, JsonErr.Unterminated)
    ELSE IF e = 117 THEN ScanHexEscape(s, j, acc)
    ELSE IF Unescape(e) >= 0 THEN ScanString(s, j + 2, Append(acc, Unescape(e)))
    ELSE Fail(j, JsonErr.Escape)
ScanChar(s, j, acc, c) ==
    IF c = -1 THEN Fail(j, JsonErr.Unterminated)
    ELSE IF c = 34 THEN Ok(PyStr(acc), j + 1)
    ELSE IF c = 92 THEN ScanEscape(s, j, acc, At(s, j + 1))
    ELSE IF c < 32 THEN Fail(j, JsonErr.ControlChar)
    ELSE ScanString(s, j + 1, Append(acc, c))
\* the string whose opening quote is just before position j
ScanString(s, j, acc) == ScanChar(s, j, acc, At(s, j))

WordInfinity == <<73, 110, 102, 105, 110, 105, 116, 121>>

\* the end of the fraction that may follow the integer part ending before ie
FracEnd(s, ie) ==
    IF At(s, ie) = 46 /\ IsDigit(At(s, ie + 1)) THEN DigitsEnd(s, ie + 1) ELSE ie
\* the end of the exponent that may follow at fe
ExpEnd(s, fe) ==
    IF At(s, fe) \in {101, 69} /\ At(s, fe + 1) \in {43, 45} /\ IsDigit(At(s, fe + 2))
    THEN DigitsEnd(s, fe + 2)
    ELSE IF At(s, fe) \in {101, 69} /\ IsDigit(At(s, fe + 1)) THEN DigitsEnd(s, fe + 1)
    ELSE fe
\* the number at i..ee-1 whose digits start at st and whose integer part
\* ends before ie: an int when nothing follows the integer part
NumberEnd(s, i, st, ie, ee) ==
    IF ee = ie
    THEN Ok(PyInt(IF st > i THEN 0 - NatValue(s, st, ie - 1) ELSE NatValue(s, st, ie - 1)), ie)
    ELSE Ok(PyFloat(SubSeq(s, i, ee - 1)), ee)
NumberTail(s, i, st, ie) == NumberEnd(s, i, st, ie, ExpEnd(s, FracEnd(s, ie)))
NumberFrom(s, i, st) ==
    IF ~IsDigit(At(s, st))
    THEN IF st > i /\ StartsWithAt(s, st, WordInfinity)
         THEN Ok(PyFloat(SubSeq(s, i, st + 7)), st + 8)
         ELSE Fail(i, JsonErr.ExpectingValue)
    ELSE NumberTail(s, i, st, IF At(s, st) = 48 THEN st + 1 ELSE DigitsEnd(s, st))
\* a number starting at position i (a digit or the minus sign)
ScanNumber(s, i) == NumberFrom(s, i, IF At(s, i) = 45 THEN i + 1 ELSE i)

RECURSIVE ScanValue(_, _)
RECURSIVE ScanMembers(_, _, _)
RECURSIVE ScanElements(_, _, _)

\* after a member: the object ends, or a comma and the next member follow
MemberEnd(s, acc, j) ==
    IF At(s, j) = 125 THEN Ok(acc, j + 1)
    ELSE IF At(s, j) = 44 THEN ScanMembers(s, SkipWs(s, j + 1), acc)
    ELSE Fail(j, JsonErr.Comma)
AfterMemberValue(s, acc, key, x) ==
    IF ~x.ok THEN x ELSE MemberEnd(s, DictSet(acc, key, x.val), SkipWs(s, x.pos))
AfterMemberName(s, acc, key, j) ==
    IF At(s, j) # 58 THEN Fail(j, JsonErr.Colon)
    ELSE AfterMemberValue(s, acc, key, ScanValue(s, SkipWs(s, j + 1)))
MemberName(s, acc, key) ==
    IF ~key.ok THEN key ELSE AfterMemberName(s, acc, key.val.v, SkipWs(s, key.pos))
\* the members of an object; j is the position of the next property name
ScanMembers(s, j, acc) ==
    IF At(s, j) # 34 THEN Fail(j, JsonErr.PropertyName)
    ELSE MemberName(s, acc, ScanString(s, j + 1, <<>>))

ElementEnd(s, acc, j) ==
    IF At(s, j) = 93 THEN Ok(PyList(acc), j + 1)
    ELSE IF At(s, j) = 44 THEN ScanElements(s, SkipWs(s, j + 1), acc)
    ELSE Fail(j, JsonErr.Comma)
AfterElement(s, acc, x) ==
    IF ~x.ok THEN x ELSE ElementEnd(s, Append(acc, x.val), SkipWs(s, x.pos))
\* the elements of an array; j is the position of the next element
ScanElements(s, j, acc) == AfterElement(s, acc, ScanValue(s, j))

ObjectFrom(s, j) ==
    IF At(s, j) = 125 THEN Ok(PyDict(<<>>), j + 1) ELSE ScanMembers(s, j, PyDict(<<>>))
ArrayFrom(s, j) ==
    IF At(s, j) = 93 THEN Ok(PyList(<<>>), j + 1) ELSE ScanElements(s, j, <<>>)

ScanValue(s, i) ==
    IF At(s, i) = 34 THEN ScanString(s, i + 1, <<>>)
    ELSE IF At(s, i) = 123 THEN ObjectFrom(s, SkipWs(s, i + 1))
    ELSE IF At(s, i) = 91 THEN ArrayFrom(s, SkipWs(s, i + 1))
    ELSE IF StartsWithAt(s, i, <<110, 117, 108, 108>>) THEN Ok(None, i + 4)
    ELSE IF StartsWithAt(s, i, <<116, 114, 117, 101>>) THEN Ok(PyBool(TRUE), i + 4)
    ELSE IF StartsWithAt(s, i, <<102, 97, 108, 115, 101>>) THEN Ok(PyBool(FALSE), i + 5)
    ELSE IF StartsWithAt(s, i, <<78, 97, 78>>) THEN Ok(PyFloat(SubSeq(s, i, i + 2)), i + 3)
    ELSE IF StartsWithAt(s, i, WordInfinity) THEN Ok(PyFloat(SubSeq(s, i, i + 7)), i + 8)
    ELSE IF At(s, i) = 45 \/ IsDigit(At(s, i)) THEN ScanNumber(s, i)
    ELSE Fail(i, JsonErr.ExpectingValue)

\* only whitespace may follow the value
DocumentEnd(s, x) ==
    IF ~x.ok THEN x
    ELSE IF SkipWs(s, x.pos) <= Len(s) THEN Fail(SkipWs(s, x.pos), JsonErr.ExtraData)
    ELSE x

json_loads(s) ==
    IF At(s, 1) = 65279 THEN Fail(1, JsonErr.Bom)
    ELSE DocumentEnd(s, ScanValue(s, SkipWs(s, 1)))

(***************************************************************************)
(* Text constants of the source                                            *)
(***************************************************************************)
K_name == <<110, 97, 109, 101>>
    \* "name"
K_summary == <<115, 117, 109, 109, 97, 114, 121>>
    \* "summary"
K_description == <<100, 101, 115, 99, 114, 105, 112, 116, 105, 111, 110>>
    \* "description"
K_version_code == <<118, 101, 114, 115, 105, 111, 110, 95, 99, 111, 100, 101>>
    \* "version_code"
K_version_name == <<118, 101, 114, 115, 105, 111, 110, 95, 110, 97, 109, 101>>
    \* "version_name"
K_categories == <<99, 97, 116, 101, 103, 111, 114, 105, 101, 115>>
    \* "categories"
TxtJsonSuffix == <<46, 106, 115, 111, 110>>
    \* ".json"
TxtMetadataNotFound == <<77, 101, 116, 97, 100, 97, 116, 97, 32, 110, 111, 116, 32, 102, 111, 117, 110, 100, 58, 32>>
    \* "Metadata not found: "
TxtInvalidMetadataFor == <<73, 110, 118, 97, 108, 105, 100, 32, 109, 101, 116, 97, 100, 97, 116, 97, 32, 102, 111, 114, 32>>
    \* "Invalid metadata for "
TxtColonSpace == <<58, 32>>
    \* ": "
TxtCodecCantDecode == <<39, 117, 116, 102, 45, 56, 39, 32, 99, 111, 100, 101, 99, 32, 99, 97, 110, 39, 116, 32, 100, 101, 99, 111, 100, 101, 32, 98, 121, 116, 101>>
    \* "'utf-8' codec can't decode byte"

(***************************************************************************)
(* Exceptions: the classes of errors.py and the built-in ones the code     *)
(* meets, each with its base class                                         *)
(***************************************************************************)
ExcBase(c) ==
    CASE c = "BridgeError"           -> "Exception"
      [] c = "MetadataError"         -> "BridgeError"
      [] c = "MetadataNotFoundError" -> "MetadataError"
      [] c = "MetadataParseError"    -> "MetadataError"
      [] c = "IndexGenerationError"  -> "BridgeError"
      [] c = "JSONDecodeError"       -> "ValueError"
      [] c = "UnicodeDecodeError"    -> "UnicodeError"
      [] c = "UnicodeError"          -> "ValueError"
      [] c = "ValueError"            -> "Exception"
      [] c = "FileNotFoundError"     -> "OSError"
      [] c = "OSError"               -> "Exception"
      [] c = "SubprocessError"       -> "Exception"
      [] c = "KeyError"              -> "LookupError"
      [] c = "LookupError"           -> "Exception"
      [] OTHER                       -> "BaseException"

RECURSIVE IsSubclass(_, _)
\* issubclass(c, h): what "except h" catches
IsSubclass(c, h) ==
    \/ c = h
    \/ c # "BaseException" /\ IsSubclass(ExcBase(c), h)

\* the outcome of a call: a returned value or a raised exception
Return(x) == [kind |-> "ok", msg |-> <<>>, val |-> x]
Raise(kind, msg) == [kind |-> kind, msg |-> msg, val |-> None]

(***************************************************************************)
(* Bounds and input sets                                                   *)
(***************************************************************************)
MaxStrLen == 1
MaxInt == 12

PidA == <<100, 107, 46, 97>>
    \* "dk.a"
PidB == <<100, 107, 46, 98>>
    \* "dk.b"
PackageIds == {PidA, PidB}

\* the two characters json.dumps must escape: the double quote, the backslash
StrAlphabet == {34, 92}
Strings == UNION {[1..n -> StrAlphabet] : n \in 0..MaxStrLen}
IntPool == {0 - MaxInt, MaxInt}

\* metadata records handed to save_metadata
StoreRecords ==
    {PyDict(<<>>)}
    \cup {PyDict(<<Item(K_name, PyStr(s))>>) : s \in Strings}
    \cup {PyDict(<<Item(K_version_code, PyInt(n))>>) : n \in IntPool}
    \cup {PyDict(<<Item(K_name, PyStr(<<97, 10>>)), Item(K_version_code, PyInt(n))>>) : n \in {0}}
    \cup {PyDict(<<Item(K_categories, PyList(xs))>>) :
             xs \in {<<>>, <<PyStr(<<230>>), PyBool(TRUE), None>>,
                     <<PyList(<<>>), PyDict(<<Item(K_name, PyBool(FALSE))>>)>>}}

RawNotJson == <<110, 111, 116, 32, 118, 97, 108, 105, 100, 32, 106, 115, 111, 110, 32, 123>>
    \* b"not valid json {"
RawCompact == <<123, 34, 110, 97, 109, 101, 34, 58, 32, 34, 65, 34, 125>>
    \* b'{"name": "A"}'
RawLatin1 == <<123, 34, 110, 97, 109, 101, 34, 58, 32, 34, 230, 34, 125>>
    \* '{"name": "æ"}' encoded as ISO-8859-1
\* contents a file can get from outside the package
RawFiles == {RawNotJson, RawCompact, RawLatin1}

NoFile == <<-1>>
NoRecord == [t |-> "absent", v |-> 0]

VARIABLES
    dirExists,      \* the metadata directory exists
    files,          \* file name -> bytes of the file, NoFile when absent
    saved,          \* package id -> the record of the last save_metadata since
                    \* the file was last written from outside, else NoRecord
    madeDir,        \* the directory was created by save_metadata
    res,            \* the last call on the store and its outcome
    metadata,       \* validate_metadata: the argument
    errors,         \* validate_metadata: the returned list
    validated,      \* validate_metadata has returned
    repoExists,     \* repo_dir exists
    toolInstalled,  \* the fdroid command can be started
    indexFile,      \* bytes of <repo_dir>/repo/index-v2.json, or NoFile
    outFile,        \* bytes of the file at output_path, or NoFile
    gen,            \* the last generate_index call and its outcome
    apps,           \* create_minimal_index: the argument
    now,            \* the wall clock
    index,          \* create_minimal_index: the outcome
    built           \* create_minimal_index has returned

storeVars == <<dirExists, files, saved, madeDir, res>>
validateVars == <<metadata, errors, validated>>
generateVars == <<repoExists, toolInstalled, indexFile, outFile, gen>>
minimalVars == <<apps, now, index, built>>
vars == <<storeVars, validateVars, generateVars, minimalVars>>

(***************************************************************************)
(* Metadata store: load_metadata, save_metadata                            *)
(***************************************************************************)
\* metadata_dir / f"{package_id}.json", as the name inside metadata_dir
MetadataPath(package_id) == package_id \o TxtJsonSuffix

\* the outcome of json.loads
LoadsOutcome(r) == IF r.ok THEN Return(r.val) ELSE Raise("JSONDecodeError", r.err)
\* the outcome of decoding the bytes, then of json.loads on the text
DecodedOutcome(dec) ==
    IF ~dec.ok THEN Raise("UnicodeDecodeError", TxtCodecCantDecode)
    ELSE LoadsOutcome(json_loads(dec.text))
\* Path.read_text(encoding="utf-8") followed by json.loads
ReadJson(bytes) == DecodedOutcome(Utf8Decode(bytes))

\* the except clause of load_metadata around the outcome of its try block
LoadHandled(package_id, body) ==
    IF body.kind # "ok" /\ IsSubclass(body.kind, "JSONDecodeError")
    THEN Raise("MetadataParseError",
               TxtInvalidMetadataFor \o package_id \o TxtColonSpace \o body.msg)
    ELSE body

\* a slip: no exists() check, so that read_text meets the missing file
load_metadata_unchecked(fs, dirOk, package_id) ==
    IF ~(dirOk /\ fs[MetadataPath(package_id)] # NoFile)
    THEN Raise("FileNotFoundError", MetadataPath(package_id))
    ELSE LoadHandled(package_id, ReadJson(fs[MetadataPath(package_id)]))

load_metadata(fs, dirOk, package_id) ==
    IF ~(dirOk /\ fs[MetadataPath(package_id)] # NoFile)
    THEN Raise("MetadataNotFoundError", TxtMetadataNotFound \o package_id)
    ELSE LoadHandled(package_id, ReadJson(fs[MetadataPath(package_id)]))

RECURSIVE DictUpdate(_, _, _)
\* d.update(items) from the i-th item on
DictUpdate(d, items, i) ==
    IF i > Len(items) THEN d
    ELSE DictUpdate(DictSet(d, items[i].k, items[i].val), items, i + 1)
\* a slip: the record is merged into the one the file holds
MergedRecord(old, record) ==
    IF old.kind = "ok" /\ old.val.t = "dict" THEN DictUpdate(old.val, record.v, 1) ELSE record
save_metadata_update(fs, package_id, record) ==
    [fs EXCEPT ![MetadataPath(package_id)] =
        Utf8Encode(json_dumps(MergedRecord(
            IF fs[MetadataPath(package_id)] = NoFile
            THEN Raise("FileNotFoundError", MetadataPath(package_id))
            ELSE ReadJson(fs[MetadataPath(package_id)]),
            record)))]

\* the files after save_metadata (the directory exists afterwards)
save_metadata(fs, package_id, record) ==
    [fs EXCEPT ![MetadataPath(package_id)] = Utf8Encode(json_dumps(record))]

StoreCall(op, pid, out, note) ==
    [op |-> op, pid |-> pid, kind |-> out.kind, msg |-> out.msg, val |-> out.val,
     note |-> note]

InitStore ==
    /\ dirExists = FALSE
    /\ files = [f \in {MetadataPath(p) : p \in PackageIds} |-> NoFile]
    /\ saved = [p \in PackageIds |-> NoRecord]
    /\ madeDir = FALSE
    /\ res = StoreCall("none", <<>>, Return(None), FALSE)

\* the directory is made from outside (a test's tmp_path)
MakeDir ==
    /\ ~dirExists
    /\ dirExists' = TRUE
    /\ res' = StoreCall("mkdir", <<>>, Return(None), FALSE)
    /\ UNCHANGED <<files, saved, madeDir>>
    /\ UNCHANGED <<validateVars, generateVars, minimalVars>>

\* a file is written from outside, as the tests do with write_text
ExternalWrite(p, raw) ==
    /\ dirExists
    /\ files' = [files EXCEPT ![MetadataPath(p)] = raw]
    /\ saved' = [saved EXCEPT ![p] = NoRecord]
    /\ res' = StoreCall("write", p, Return(None), FALSE)
    /\ UNCHANGED <<dirExists, madeDir>>
    /\ UNCHANGED <<validateVars, generateVars, minimalVars>>

\* the record last saved has a key the new record lacks
Drops(old, record) ==
    /\ old # NoRecord
    /\ DictKeys(old) \ DictKeys(record) # {}

\* note: the record saved before had a key the new record does not have
Save(p, record) ==
    /\ dirExists' = TRUE
    /\ madeDir' = (madeDir \/ ~dirExists)
    /\ files' = save_metadata(files, p, record)
    /\ saved' = [saved EXCEPT ![p] = record]
    /\ res' = StoreCall("save", p, Return(None),
                        Drops(saved[p], record))
    /\ UNCHANGED <<validateVars, generateVars, minimalVars>>

Load(p) ==
    /\ res' = StoreCall("load", p, load_metadata(files, dirExists, p), FALSE)
    /\ UNCHANGED <<dirExists, files, saved, madeDir>>
    /\ UNCHANGED <<validateVars, generateVars, minimalVars>>

NextStore ==
    \/ MakeDir
    \/ \E p \in PackageIds, raw \in RawFiles : ExternalWrite(p, raw)
    \/ \E p \in PackageIds, record \in StoreRecords : Save(p, record)
    \/ \E p \in PackageIds : Load(p)

(***************************************************************************)
(* Metadata validation: validate_metadata                                  *)
(***************************************************************************)
TxtMissingRequired == <<77, 105, 115, 115, 105, 110, 103, 32, 114, 101, 113, 117, 105, 114, 101, 100, 32, 102, 105, 101, 108, 100, 58, 32>>
    \* "Missing required field: "
TxtEmptyRequired == <<69, 109, 112, 116, 121, 32, 114, 101, 113, 117, 105, 114, 101, 100, 32, 102, 105, 101, 108, 100, 58, 32>>
    \* "Empty required field: "
TxtMustBeInteger == <<118, 101, 114, 115, 105, 111, 110, 95, 99, 111, 100, 101, 32, 109, 117, 115, 116, 32, 98, 101, 32, 97, 110, 32, 105, 110, 116, 101, 103, 101, 114>>
    \* "version_code must be an integer"
TxtMustBeNonNegative == <<118, 101, 114, 115, 105, 111, 110, 95, 99, 111, 100, 101, 32, 109, 117, 115, 116, 32, 98, 101, 32, 110, 111, 110, 45, 110, 101, 103, 97, 116, 105, 118, 101>>
    \* "version_code must be non-negative"

required_fields == <<K_name, K_summary, K_description, K_version_code, K_version_name>>

\* one pass of the loop over required_fields
FieldErrors(m, field) ==
    IF ~DictHas(m, field) THEN <<TxtMissingRequired \o field>>
    ELSE IF ~Truthy(DictGet(m, field)) THEN <<TxtEmptyRequired \o field>>
    ELSE <<>>

RECURSIVE RequiredErrors(_, _)
\* the errors the loop appends from the i-th required field on
RequiredErrors(m, i) ==
    IF i > Len(required_fields) THEN <<>>
    ELSE FieldErrors(m, required_fields[i]) \o RequiredErrors(m, i + 1)

\* the check that follows the loop
VersionCodeErrors(m) ==
    IF DictHas(m, K_version_code)
    THEN IF ~IsInstanceInt(DictGet(m, K_version_code)) THEN <<TxtMustBeInteger>>
         ELSE IF IntOf(DictGet(m, K_version_code)) < 0 THEN <<TxtMustBeNonNegative>>
         ELSE <<>>
    ELSE <<>>

\* a slip: the type check chained to the emptiness check with elif
validate_metadata_elif(m) ==
    RequiredErrors(m, 1)
    \o (IF DictHas(m, K_version_code) /\ ~Truthy(DictGet(m, K_version_code))
        THEN <<>> ELSE VersionCodeErrors(m))

validate_metadata(m) == RequiredErrors(m, 1) \o VersionCodeErrors(m)

MaxVersionCode == 2
Absent == NoRecord
TextValues == {Absent, PyStr(<<>>), PyStr(<<97>>)}
VersionCodeValues ==
    {Absent, None, PyStr(<<>>), PyStr(<<49>>), PyBool(TRUE), PyBool(FALSE),
     PyFloat(<<49, 46, 53>>), PyList(<<>>)}
    \cup {PyInt(n) : n \in -2..MaxVersionCode}

\* the dict holding, in the order of required_fields, the fields given
RecordOf(vals) ==
    PyDict(SelectSeq([i \in 1..Len(required_fields) |-> Item(required_fields[i], vals[i])],
                     LAMBDA it : it.val # Absent))

ValidateRecords ==
    {RecordOf(<<n, s, d, vc, vn>>) :
        n \in TextValues, s \in TextValues, d \in TextValues,
        vc \in VersionCodeValues, vn \in TextValues}

IdleValidate ==
    /\ metadata = PyDict(<<>>)
    /\ errors = <<>>
    /\ validated = FALSE

InitValidate ==
    /\ metadata \in ValidateRecords
    /\ errors = <<>>
    /\ validated = FALSE

Validate ==
    /\ ~validated
    /\ errors' = validate_metadata(metadata)
    /\ validated' = TRUE
    /\ UNCHANGED metadata
    /\ UNCHANGED <<storeVars, generateVars, minimalVars>>

NextValidate == Validate

(***************************************************************************)
(* Index builder: generate_index                                           *)
(***************************************************************************)
TxtRepoNotFound == <<82, 101, 112, 111, 115, 105, 116, 111, 114, 121, 32, 100, 105, 114, 101, 99, 116, 111, 114, 121, 32, 110, 111, 116, 32, 102, 111, 117, 110, 100, 58, 32>>
    \* "Repository directory not found: "
TxtUpdateFailed == <<102, 100, 114, 111, 105, 100, 32, 117, 112, 100, 97, 116, 101, 32, 102, 97, 105, 108, 101, 100, 58, 32>>
    \* "fdroid update failed: "
TxtNotGenerated == <<73, 110, 100, 101, 120, 32, 102, 105, 108, 101, 32, 110, 111, 116, 32, 103, 101, 110, 101, 114, 97, 116, 101, 100>>
    \* "Index file not generated"
TxtFailedToRun == <<70, 97, 105, 108, 101, 100, 32, 116, 111, 32, 114, 117, 110, 32, 102, 100, 114, 111, 105, 100, 115, 101, 114, 118, 101, 114, 58, 32>>
    \* "Failed to run fdroidserver: "
TxtFailedToParse == <<70, 97, 105, 108, 101, 100, 32, 116, 111, 32, 112, 97, 114, 115, 101, 32, 103, 101, 110, 101, 114, 97, 116, 101, 100, 32, 105, 110, 100, 101, 120, 58, 32>>
    \* "Failed to parse generated index: "
TxtNoSuchFile == <<91, 69, 114, 114, 110, 111, 32, 50, 93, 32, 78, 111, 32, 115, 117, 99, 104, 32, 102, 105, 108, 101>>
    \* "[Errno 2] No such file"
TxtStderr == <<69, 82, 82, 79, 82>>
    \* "ERROR"
RepoDir == <<47, 114, 101, 112, 111>>
    \* "/repo"
RawIndex == <<123, 34, 97, 112, 112, 115, 34, 58, 32, 123, 125, 125>>
    \* b'{"apps": {}}'

\* what one run of "fdroid update --pretty --nosign" can do: its exit code,
\* its standard error, and the index file it leaves (Keep: it writes none)
Keep == <<-2>>
IndexFiles == {RawIndex, RawCompact, RawNotJson, RawLatin1, <<>>}
ToolRuns == [returncode : {0, 1}, stderr : {TxtStderr}, writes : {Keep} \cup IndexFiles]

Effect(out, log, idx, outp) == [out |-> out, log |-> log, idx |-> idx, outp |-> outp]

\* the try block once the index file is read: log lists the process
\* launches ("run"), the file reads and the file writes made, in order
AfterRead(data, idx, outp, withOutput) ==
    IF data.kind # "ok" THEN Effect(data, <<"run", "read">>, idx, outp)
    ELSE IF withOutput
    THEN Effect(data, <<"run", "read", "write">>, idx, Utf8Encode(json_dumps(data.val)))
    ELSE Effect(data, <<"run", "read">>, idx, outp)

\* the try block once the tool has exited, leaving the index file idx
AfterRun(tool, idx, outp, withOutput) ==
    IF tool.returncode # 0
    THEN Effect(Raise("IndexGenerationError", TxtUpdateFailed \o tool.stderr),
                <<"run">>, idx, outp)
    ELSE IF idx = NoFile
    THEN Effect(Raise("IndexGenerationError", TxtNotGenerated), <<"run">>, idx, outp)
    ELSE AfterRead(ReadJson(idx), idx, outp, withOutput)

\* the try block: subprocess.run raises FileNotFoundError when the command
\* cannot be started
GenerateTry(installed, tool, idx, outp, withOutput) ==
    IF ~installed
    THEN Effect(Raise("FileNotFoundError", TxtNoSuchFile), <<"run">>, idx, outp)
    ELSE AfterRun(tool, IF tool.writes = Keep THEN idx ELSE tool.writes, outp, withOutput)

\* the two except clauses
GenerateHandled(e) ==
    IF e.out.kind = "ok" THEN e
    ELSE IF IsSubclass(e.out.kind, "SubprocessError")
    THEN [e EXCEPT !.out = Raise("IndexGenerationError", TxtFailedToRun \o e.out.msg)]
    ELSE IF IsSubclass(e.out.kind, "JSONDecodeError")
    THEN [e EXCEPT !.out = Raise("IndexGenerationError", TxtFailedToParse \o e.out.msg)]
    ELSE e

\* a slip: no check of repo_dir before the launch (which then fails, the
\* working directory being absent)
generate_index_unchecked(repoOk, installed, tool, idx, outp, withOutput) ==
    GenerateHandled(GenerateTry(installed /\ repoOk, tool, idx, outp, withOutput))

generate_index(repoOk, installed, tool, idx, outp, withOutput) ==
    IF ~repoOk
    THEN Effect(Raise("IndexGenerationError", TxtRepoNotFound \o RepoDir), <<>>, idx, outp)
    ELSE GenerateHandled(GenerateTry(installed, tool, idx, outp, withOutput))

GenCall(op, repoOk, withOutput, e) ==
    [op |-> op, repoExisted |-> repoOk, withOutput |-> withOutput,
     kind |-> e.out.kind, msg |-> e.out.msg, val |-> e.out.val, log |-> e.log]
NoGenCall == GenCall("none", FALSE, FALSE, Effect(Return(None), <<>>, NoFile, NoFile))

InitGenerate ==
    /\ repoExists = FALSE
    /\ toolInstalled = FALSE
    /\ indexFile = NoFile
    /\ outFile = NoFile
    /\ gen = NoGenCall

CreateRepo ==
    /\ ~repoExists
    /\ repoExists' = TRUE
    /\ gen' = NoGenCall
    /\ UNCHANGED <<toolInstalled, indexFile, outFile>>
    /\ UNCHANGED <<storeVars, validateVars, minimalVars>>

RemoveRepo ==
    /\ repoExists
    /\ repoExists' = FALSE
    /\ indexFile' = NoFile
    /\ gen' = NoGenCall
    /\ UNCHANGED <<toolInstalled, outFile>>
    /\ UNCHANGED <<storeVars, validateVars, minimalVars>>

InstallTool ==
    /\ toolInstalled' = ~toolInstalled
    /\ gen' = NoGenCall
    /\ UNCHANGED <<repoExists, indexFile, outFile>>
    /\ UNCHANGED <<storeVars, validateVars, minimalVars>>

GenerateIndex(withOutput, tool) ==
    LET e == generate_index(repoExists, toolInstalled, tool, indexFile, outFile, withOutput)
    IN  /\ gen' = GenCall("generate_index", repoExists, withOutput, e)
        /\ indexFile' = e.idx
        /\ outFile' = e.outp
        /\ UNCHANGED <<repoExists, toolInstalled>>
        /\ UNCHANGED <<storeVars, validateVars, minimalVars>>

NextGenerate ==
    \/ CreateRepo
    \/ RemoveRepo
    \/ InstallTool
    \/ \E withOutput \in BOOLEAN, tool \in ToolRuns : GenerateIndex(withOutput, tool)

(***************************************************************************)
(* Index builder: create_minimal_index, _format_app_entry                  *)
(***************************************************************************)
K_package_id == <<112, 97, 99, 107, 97, 103, 101, 95, 105, 100>>
    \* "package_id"
K_license == <<108, 105, 99, 101, 110, 115, 101>>
    \* "license"
K_suggestedVersionCode == <<115, 117, 103, 103, 101, 115, 116, 101, 100, 86, 101, 114, 115, 105, 111, 110, 67, 111, 100, 101>>
    \* "suggestedVersionCode"
K_repo == <<114, 101, 112, 111>>
    \* "repo"
K_apps == <<97, 112, 112, 115>>
    \* "apps"
K_packages == <<112, 97, 99, 107, 97, 103, 101, 115>>
    \* "packages"
K_timestamp == <<116, 105, 109, 101, 115, 116, 97, 109, 112>>
    \* "timestamp"
K_version == <<118, 101, 114, 115, 105, 111, 110>>
    \* "version"
K_en_US == <<101, 110, 45, 85, 83>>
    \* "en-US"
TxtUnknown == <<85, 110, 107, 110, 111, 119, 110>>
    \* "Unknown"

IndexFormatVersion == 21

\* {"en-US": x}
Localized(x) == PyDict(<<Item(K_en_US, x)>>)

_format_app_entry(app) ==
    PyDict(<<Item(K_name, Localized(DictGetDefault(app, K_name, PyStr(<<>>)))),
             Item(K_summary, Localized(DictGetDefault(app, K_summary, PyStr(<<>>)))),
             Item(K_description, Localized(DictGetDefault(app, K_description, PyStr(<<>>)))),
             Item(K_license, DictGetDefault(app, K_license, PyStr(TxtUnknown))),
             Item(K_categories, DictGetDefault(app, K_categories, PyList(<<>>))),
             Item(K_suggestedVersionCode, DictGetDefault(app, K_version_code, PyInt(0)))>>)

RECURSIVE AppsEntries(_, _, _)
\* {app["package_id"]: _format_app_entry(app) for app in apps}
AppsEntries(as, i, acc) ==
    IF i > Len(as) THEN acc
    ELSE AppsEntries(as, i + 1,
             DictSet(acc, DictGet(as[i], K_package_id).v, _format_app_entry(as[i])))

RECURSIVE AppsEntriesFirst(_, _, _)
\* a slip: an entry already present is kept
AppsEntriesFirst(as, i, acc) ==
    IF i > Len(as) THEN acc
    ELSE AppsEntriesFirst(as, i + 1,
             IF DictHas(acc, DictGet(as[i], K_package_id).v) THEN acc
             ELSE DictSet(acc, DictGet(as[i], K_package_id).v, _format_app_entry(as[i])))

RECURSIVE PackagesEntries(_, _, _)
\* {app["package_id"]: [] for app in apps}
PackagesEntries(as, i, acc) ==
    IF i > Len(as) THEN acc
    ELSE PackagesEntries(as, i + 1, DictSet(acc, DictGet(as[i], K_package_id).v, PyList(<<>>)))

\* the wall clock counts ticks; int(time.time() * 1000) truncates to
\* whole milliseconds
TicksPerMs == 2
Timestamp(clock) == clock \div TicksPerMs

MinimalIndex(repo_name, repo_description, as, clock, entries) ==
    IF \E i \in DOMAIN as : ~DictHas(as[i], K_package_id)
    THEN Raise("KeyError", <<39>> \o K_package_id \o <<39>>)
    ELSE Return(PyDict(<<
             Item(K_repo, PyDict(<<Item(K_name, Localized(PyStr(repo_name))),
                                   Item(K_description, Localized(PyStr(repo_description))),
                                   Item(K_timestamp, PyInt(Timestamp(clock))),
                                   Item(K_version, PyInt(IndexFormatVersion))>>)),
             Item(K_apps, entries),
             Item(K_packages, PackagesEntries(as, 1, PyDict(<<>>)))>>))

create_minimal_index_first(repo_name, repo_description, as, clock) ==
    MinimalIndex(repo_name, repo_description, as, clock,
                 AppsEntriesFirst(as, 1, PyDict(<<>>)))

create_minimal_index(repo_name, repo_description, as, clock) ==
    MinimalIndex(repo_name, repo_description, as, clock, AppsEntries(as, 1, PyDict(<<>>)))

MaxApps == 2
MaxClock == 2

AppRecord(pid, name, vc) ==
    PyDict(SelectSeq(<<Item(K_package_id, pid), Item(K_name, name), Item(K_version_code, vc)>>,
                     LAMBDA it : it.val # Absent))
AppPool ==
    {AppRecord(pid, name, vc) :
        pid \in {PyStr(PidA), PyStr(PidB)},
        name \in {Absent, PyStr(<<65>>), PyStr(<<66>>)},
        vc \in {Absent, PyInt(3)}}
    \cup {AppRecord(Absent, PyStr(<<65>>), Absent)}
AppLists == UNION {[1..n -> AppPool] : n \in 0..MaxApps}
RepoNames == {<<82>>, <<>>}

IdleMinimal ==
    /\ apps = <<>>
    /\ now = TicksPerMs
    /\ index = Return(None)
    /\ built = FALSE

\* the clock is past its first millisecond
InitMinimal ==
    /\ apps \in AppLists
    /\ now \in TicksPerMs..(TicksPerMs + 1)
    /\ index = Return(None)
    /\ built = FALSE

Tick ==
    /\ now < TicksPerMs + MaxClock
    /\ now' = now + 1
    /\ UNCHANGED <<apps, index, built>>
    /\ UNCHANGED <<storeVars, validateVars, generateVars>>

CreateMinimalIndex(repo_name, repo_description) ==
    /\ index' = create_minimal_index(repo_name, repo_description, apps, now)
    /\ built' = TRUE
    /\ UNCHANGED <<apps, now>>
    /\ UNCHANGED <<storeVars, validateVars, generateVars>>

NextMinimal ==
    \/ Tick
    \/ \E repo_name \in RepoNames : CreateMinimalIndex(repo_name, <<68>>)

(***************************************************************************)
(* Specifications, one per component; the other components stay idle       *)
(***************************************************************************)
Init == InitStore /\ IdleValidate /\ InitGenerate /\ IdleMinimal
Next == NextStore
Spec == Init /\ [][Next]_vars

InitV == InitStore /\ InitValidate /\ InitGenerate /\ IdleMinimal
SpecValidate == InitV /\ [][NextValidate]_vars

SpecGenerate == Init /\ [][NextGenerate]_vars

InitM == InitStore /\ IdleValidate /\ InitGenerate /\ InitMinimal
SpecMinimal == InitM /\ [][NextMinimal]_vars

(***************************************************************************)
(* Properties of the metadata store (Spec)                                 *)
(***************************************************************************)
\* the file of package id p is there
FileExists(p) == dirExists /\ files[MetadataPath(p)] # NoFile

\* C1: a load that follows a save for the same package id, with no other
\* write of that file in between, returns a value equal to the record that
\* was saved, also when the save had to make the directory.
C1_RoundTrip ==
    (res.op = "load" /\ saved[res.pid] # NoRecord)
        => (res.kind = "ok" /\ PyEq(res.val, saved[res.pid]))

\* a record whose name is a double quote came back from a directory that
\* save_metadata made
C1_Witness ==
    /\ res.op = "load"
    /\ res.kind = "ok"
    /\ madeDir
    /\ saved[res.pid] = PyDict(<<Item(K_name, PyStr(<<34>>))>>)

\* C2: a load for a package id that has no file fails with
\* MetadataNotFoundError, the message contains the package id, and the load
\* leaves the directory and every file as they were.
C2_LoadAbsent ==
    /\ [](res.op = "load" /\ ~FileExists(res.pid)
            => /\ res.kind = "MetadataNotFoundError"
               /\ Contains(res.msg, res.pid))
    /\ [][res'.op = "load" /\ ~FileExists(res'.pid)
            => files' = files /\ dirExists' = dirExists]_vars

\* a load failed for one package id while the other has a file
C2_Witness ==
    /\ res.op = "load"
    /\ res.kind = "MetadataNotFoundError"
    /\ dirExists
    /\ \E q \in PackageIds : q # res.pid /\ FileExists(q)

\* the bytes are UTF-8 text that is a JSON document
ValidJsonFile(bytes) == ReadJson(bytes).kind = "ok"

\* C3: a load of an existing file whose content is not valid JSON fails with
\* MetadataParseError and the message contains the package id.
C3_MalformedIsParseError ==
    (res.op = "load" /\ FileExists(res.pid) /\ ~ValidJsonFile(files[MetadataPath(res.pid)]))
        => (res.kind = "MetadataParseError" /\ Contains(res.msg, res.pid))

\* C9: in every state, loading any package id saved so far yields exactly
\* the record of its most recent save, and a save for one package id leaves
\* the file of every other package id as it was.
C9_Overwrite ==
    /\ [](\A p \in PackageIds :
            saved[p] # NoRecord => load_metadata(files, dirExists, p) = Return(saved[p]))
    /\ [][\A p \in PackageIds : \A q \in PackageIds \ {p} :
            (res'.op = "save" /\ res'.pid = p)
                => files'[MetadataPath(q)] = files[MetadataPath(q)]]_vars

\* a save replaced a record that had a key the new record lacks, while the
\* other package id holds a saved record
C9_Witness ==
    /\ res.op = "save"
    /\ res.note
    /\ \E q \in PackageIds : q # res.pid /\ saved[q] # NoRecord

(***************************************************************************)
(* Properties of validate_metadata (SpecValidate)                          *)
(***************************************************************************)
\* a value with nothing in it: the empty string, list or dict, or None
IsEmptyValue(x) == x.t = "none" \/ (x.t \in {"str", "list", "dict"} /\ x.v = <<>>)
\* field is missing from m or empty
MissingOrEmpty(m, field) == ~DictHas(m, field) \/ IsEmptyValue(DictGet(m, field))
\* version_code is an integer that is at least 0
NonNegativeVersionCode(m) ==
    /\ DictHas(m, K_version_code)
    /\ DictGet(m, K_version_code).t = "int"
    /\ DictGet(m, K_version_code).v >= 0

\* C4: a record with the five required fields non-empty and version_code
\* an integer >= 0 (0 included) gets the empty list of errors.
C4_ValidRecordNoErrors ==
    (/\ validated
     /\ \A i \in DOMAIN required_fields : ~MissingOrEmpty(metadata, required_fields[i])
     /\ NonNegativeVersionCode(metadata))
        => errors = <<>>

TxtInteger == <<105, 110, 116, 101, 103, 101, 114>>
    \* "integer"
TxtNonNegative == <<110, 111, 110, 45, 110, 101, 103, 97, 116, 105, 118, 101>>
    \* "non-negative"

ClaimedFieldErrors(m, field) ==
    IF ~DictHas(m, field) THEN <<TxtMissingRequired \o field>>
    ELSE IF IsEmptyValue(DictGet(m, field)) THEN <<TxtEmptyRequired \o field>>
    ELSE <<>>
ClaimedRequiredErrors(m) ==
    ClaimedFieldErrors(m, K_name) \o ClaimedFieldErrors(m, K_summary)
    \o ClaimedFieldErrors(m, K_description) \o ClaimedFieldErrors(m, K_version_code)
    \o ClaimedFieldErrors(m, K_version_name)

\* C10: the result is one presence/emptiness error for each required field
\* that is missing or empty, in the order name, summary, description,
\* version_code, version_name, then at most one version_code error; it is
\* empty exactly when no required field is missing or empty and
\* version_code is a non-negative integer.
C10_AllErrorsCollected ==
    validated =>
        /\ Len(errors) >= Len(ClaimedRequiredErrors(metadata))
        /\ SubSeq(errors, 1, Len(ClaimedRequiredErrors(metadata)))
              = ClaimedRequiredErrors(metadata)
        /\ Len(errors) <= Len(ClaimedRequiredErrors(metadata)) + 1
        /\ (errors = <<>>) <=> (/\ ClaimedRequiredErrors(metadata) = <<>>
                                /\ NonNegativeVersionCode(metadata))

(***************************************************************************)
(* Properties of generate_index (SpecGenerate)                             *)
(***************************************************************************)
\* C6: a call on a repo_dir that does not exist fails with
\* IndexGenerationError without a process launch, a file read or a file
\* write, and leaves the index file and the output file as they were.
C6_CheckedBeforeLaunch ==
    /\ [](gen.op = "generate_index" /\ ~gen.repoExisted
            => gen.kind = "IndexGenerationError" /\ gen.log = <<>>)
    /\ [][gen'.op = "generate_index" /\ ~gen'.repoExisted
            => indexFile' = indexFile /\ outFile' = outFile]_vars

\* the call was made with an output path, the tool being installed
C6_Witness ==
    /\ gen.op = "generate_index"
    /\ ~gen.repoExisted
    /\ gen.withOutput
    /\ toolInstalled

\* C7: every failing call on an existing repo_dir raises
\* IndexGenerationError, whether the tool exits non-zero, leaves no index
\* file, cannot be started, or leaves an index file that is not valid JSON,
\* and the tool is launched at most once.
C7_OnlyGenerationError ==
    (gen.op = "generate_index" /\ gen.repoExisted /\ gen.kind # "ok")
        => /\ gen.kind = "IndexGenerationError"
           /\ Cardinality({i \in DOMAIN gen.log : gen.log[i] = "run"}) <= 1

(***************************************************************************)
(* Properties of create_minimal_index (SpecMinimal)                        *)
(***************************************************************************)
AppId(i) == DictGet(apps[i], K_package_id).v
InputIds == {AppId(i) : i \in DOMAIN apps}
\* the position of the last input app with package id k
LastWithId(k) == CHOOSE i \in DOMAIN apps : AppId(i) = k /\ \A j \in DOMAIN apps : j > i => AppId(j) # k
IndexApps == DictGet(index.val, K_apps)
IndexPackages == DictGet(index.val, K_packages)
IndexRepo == DictGet(index.val, K_repo)
\* apps[k]["name"]["en-US"] of the index
EntryName(k) == DictGet(DictGet(DictGet(IndexApps, k), K_name), K_en_US)

\* what C8 says apart from the names
MinimalIndexShape ==
    /\ index.kind = "ok"
    /\ DictKeys(IndexApps) = InputIds
    /\ DictKeys(IndexPackages) = InputIds
    /\ \A k \in InputIds : DictGet(IndexPackages, k) = PyList(<<>>)
    /\ apps = <<>> => IndexApps = PyDict(<<>>) /\ IndexPackages = PyDict(<<>>)
    /\ DictGet(IndexRepo, K_version) = PyInt(21)
    /\ DictGet(IndexRepo, K_timestamp).t = "int"
    /\ DictGet(IndexRepo, K_timestamp).v > 0

\* C8 as stated: the keys of apps and of packages are the input package
\* ids, every packages entry is empty, the entry of a package id carries the
\* name of the input app with that id, for every input app that has a name,
\* repo.version is 21 and repo.timestamp is a positive integer.
C8_NameOfEveryApp ==
    (built /\ \A i \in DOMAIN apps : DictHas(apps[i], K_package_id))
        => /\ MinimalIndexShape
           /\ \A i \in DOMAIN apps :
                 DictHas(apps[i], K_name) => EntryName(AppId(i)) = DictGet(apps[i], K_name)

\* C8 as amended: the entry of a package id carries the name of the last
\* input app with that id, the empty string when that app has no name.
C8_NameOfLastApp ==
    (built /\ \A i \in DOMAIN apps : DictHas(apps[i], K_package_id))
        => /\ MinimalIndexShape
           /\ \A k \in InputIds :
                 EntryName(k) = DictGetDefault(apps[LastWithId(k)], K_name, PyStr(<<>>))

\* two input apps share a package id and differ in name
C8_Witness ==
    /\ built
    /\ index.kind = "ok"
    /\ \E i, j \in DOMAIN apps :
          /\ i < j
          /\ AppId(i) = AppId(j)
          /\ DictHas(apps[i], K_name) /\ DictHas(apps[j], K_name)
          /\ DictGet(apps[i], K_name) # DictGet(apps[j], K_name)

=============================================================================
